---- MODULE Spec2Model ----
(***************************************************************************)
(* PayrollReconciliationEngine (src/reconciliation_engine.py): an engine   *)
(* instance holds the payroll table, the GL table and two accumulator      *)
(* lists; reconcile() runs five checks in order and builds the report.     *)
(*                                                                         *)
(* Money is an exact decimal [c |-> whole cents, s |-> 1e-7 dollar units   *)
(* above them], so that 0.01 and 0.0100001 are distinct amounts and        *)
(* round(x, 2) is a real conversion.                                       *)
(***************************************************************************)
EXTENDS Integers, Sequences, FiniteSets

VARIABLES payroll_df, gl_df, variances, flags, pc, calls, outcomes, log

vars == <<payroll_df, gl_df, variances, flags, pc, calls, outcomes, log>>

(* ------------------------------ bounds -------------------------------- *)

\* Rows of the payroll table.
MaxRows == 2

\* reconcile() calls made on one engine instance.
MaxCalls == 2

(* ------------------------------ amounts ------------------------------- *)

\* 1e-7 dollar units in one cent.
SubPerCent == 10 ^ 5

Amt(cents, sub) == [c |-> cents, s |-> sub]

\* A two-decimal currency amount, dollars and cents.
Usd(d, ct) == Amt(d * 100 + ct, 0)

Zero == Amt(0, 0)

Add(a, b) ==
    LET s == a.s + b.s
    IN  IF s >= SubPerCent THEN Amt(a.c + b.c + 1, s - SubPerCent)
                           ELSE Amt(a.c + b.c, s)

Neg(a) == IF a.s = 0 THEN Amt(-a.c, 0) ELSE Amt(-a.c - 1, SubPerCent - a.s)

Sub(a, b) == Add(a, Neg(b))

Less(a, b) == a.c < b.c \/ (a.c = b.c /\ a.s < b.s)

Greater(a, b) == Less(b, a)

\* abs(x)
Abs(a) == IF a.c < 0 THEN Neg(a) ELSE a

\* round(x, 2): to whole cents, ties to the even cent.
Round2(a) ==
    IF 2 * a.s < SubPerCent THEN Amt(a.c, 0)
    ELSE IF 2 * a.s > SubPerCent THEN Amt(a.c + 1, 0)
    ELSE IF a.c % 2 = 0 THEN Amt(a.c, 0) ELSE Amt(a.c + 1, 0)

\* The literals the checks compare against.
Tolerance == Usd(0, 1)

GrossHighThreshold == Usd(100, 0)

BonusThreshold == Usd(1000, 0)

OvertimeThreshold == Usd(400, 0)

(* ------------------------------- tables ------------------------------- *)

\* A table is [columns |-> set of names, rows |-> sequence of rows], a row
\* being a function on the columns.

\* Series.sum() of one column over a sequence of rows.
RECURSIVE ColSum(_, _)
ColSum(rows, col) ==
    IF rows = <<>> THEN Zero
    ELSE Add(Head(rows)[col], ColSum(Tail(rows), col))

\* df[df[col] == value]
WhereEq(rows, col, value) == SelectSeq(rows, LAMBDA r : r[col] = value)

\* df[df[col].isin(values)]
WhereIn(rows, col, values) == SelectSeq(rows, LAMBDA r : r[col] \in values)

\* Series.unique(): the distinct values in order of first appearance.
RECURSIVE Unique(_, _)
Unique(rows, col) ==
    IF rows = <<>> THEN <<>>
    ELSE LET init == Unique(SubSeq(rows, 1, Len(rows) - 1), col)
             last == rows[Len(rows)][col]
         IN  IF \E i \in DOMAIN init : init[i] = last THEN init
             ELSE Append(init, last)

NoError == [type |-> "none", args |-> <<>>]

\* df[col] on a table without that column: pandas raises KeyError(col).
KeyError(col) == [type |-> "KeyError", args |-> <<col>>]

\* The error of the first failing column access of a sequence of accesses
\* <<table, column>>, table being "payroll" or "GL".
FirstMissing(p, g, accesses) ==
    LET bad == {i \in DOMAIN accesses :
                   accesses[i][2] \notin
                       (IF accesses[i][1] = "payroll" THEN p.columns ELSE g.columns)}
    IN  IF bad = {} THEN NoError
        ELSE KeyError(accesses[CHOOSE i \in bad : \A j \in bad : i <= j][2])

(* ------------------------------ records ------------------------------- *)

\* One dict appended to self.variances.
VarianceRecord(type, payroll_amount, gl_amount, variance, severity) ==
    [list |-> "variances",
     rec  |-> [Type           |-> type,
               Payroll_Amount |-> Round2(payroll_amount),
               GL_Amount      |-> Round2(gl_amount),
               Variance       |-> Round2(variance),
               Severity       |-> severity]]

\* One dict appended to self.flags.
FlagRecord(category, issue, impact, action) ==
    [list |-> "flags",
     rec  |-> [Category |-> category, Issue |-> issue,
               Impact |-> impact, Action |-> action]]

\* f'Understated expense by ${abs(x):.2f}'
UnderstatedBy(x) == <<"Understated expense by $", Round2(Abs(x))>>

\* abs(x) > 0.01
OutOfToleranceGE(x) == ~Less(Abs(x), Tolerance)
OutOfTolerance(x) == Greater(Abs(x), Tolerance)

\* 'High' if abs(gross_variance) > 100 else 'Medium'
GrossSeverityGE(x) ==
    IF ~Less(Abs(x), GrossHighThreshold) THEN "High" ELSE "Medium"
GrossSeverity(x) ==
    IF Greater(Abs(x), GrossHighThreshold) THEN "High" ELSE "Medium"

\* What a check does: the appends it makes, in program order, and the error
\* it raises (after them), if any.
Result(emits, err) == [emits |-> emits, err |-> err]

(* ------------------------------- checks ------------------------------- *)

_check_totals(p, g) ==
    LET err == FirstMissing(p, g,
                   << <<"payroll", "Gross_Pay">>, <<"payroll", "Net_Pay">>,
                      <<"payroll", "Total_Deductions">>,
                      <<"GL", "GL_Account">>, <<"GL", "Debit">>,
                      <<"GL", "GL_Account">>, <<"GL", "Credit">>,
                      <<"GL", "GL_Account">>, <<"GL", "Credit">> >>)
        total_gross == ColSum(p.rows, "Gross_Pay")
        total_net == ColSum(p.rows, "Net_Pay")
        total_deductions == ColSum(p.rows, "Total_Deductions")
        gl_salary_expense == ColSum(WhereEq(g.rows, "GL_Account", "6100"), "Debit")
        gl_cash_payout == ColSum(WhereEq(g.rows, "GL_Account", "1010"), "Credit")
        gl_total_liabilities ==
            ColSum(WhereIn(g.rows, "GL_Account", {"2110", "2120", "2130"}), "Credit")
        gross_variance == Sub(total_gross, gl_salary_expense)
        net_variance == Sub(total_net, gl_cash_payout)
        deduction_variance == Sub(total_deductions, gl_total_liabilities)
    IN  IF err # NoError THEN Result(<<>>, err)
        ELSE Result(
              (IF OutOfTolerance(gross_variance)
               THEN <<VarianceRecord(<<"Gross Pay Variance">>, total_gross,
                          gl_salary_expense, gross_variance,
                          GrossSeverity(gross_variance))>>
               ELSE <<>>)
              \o
              (IF OutOfTolerance(net_variance)
               THEN <<VarianceRecord(<<"Net Pay Variance">>, total_net,
                          gl_cash_payout, net_variance, "High")>>
               ELSE <<>>)
              \o
              (IF OutOfTolerance(deduction_variance)
               THEN <<VarianceRecord(<<"Total Deductions Variance">>,
                          total_deductions, gl_total_liabilities,
                          deduction_variance, "Medium")>>
               ELSE <<>>),
              NoError)

\* The pension check with the flag raised by the employee comparison too.
_check_pension_deductions_flag_both(p, g) ==
    LET err == FirstMissing(p, g,
                   << <<"payroll", "Pension_Deduction">>,
                      <<"GL", "GL_Account">>, <<"GL", "Credit">>,
                      <<"payroll", "Employer_Pension_Contribution">>,
                      <<"GL", "Debit">> >>)
        a == ColSum(p.rows, "Pension_Deduction")
        b == ColSum(WhereEq(g.rows, "GL_Account", "2110"), "Credit")
        c == ColSum(p.rows, "Employer_Pension_Contribution")
        d == ColSum(WhereEq(g.rows, "GL_Account", "6120"), "Debit")
        flag(x) ==
            FlagRecord("Pension",
                <<"Employer pension contribution not fully accrued in GL">>,
                UnderstatedBy(x), "Post accrual adjustment before month-end close")
    IN  IF err # NoError THEN Result(<<>>, err)
        ELSE Result(
              (IF OutOfTolerance(Sub(a, b))
               THEN <<VarianceRecord(<<"Pension Deduction Variance">>, a, b,
                          Sub(a, b), "High"), flag(Sub(a, b))>>
               ELSE <<>>)
              \o
              (IF OutOfTolerance(Sub(c, d))
               THEN <<VarianceRecord(<<"Employer Pension Contribution Variance">>,
                          c, d, Sub(c, d), "High"), flag(Sub(c, d))>>
               ELSE <<>>),
              NoError)
_check_pension_deductions(p, g) ==
    LET err1 == FirstMissing(p, g,
                    << <<"payroll", "Pension_Deduction">>,
                       <<"GL", "GL_Account">>, <<"GL", "Credit">> >>)
        payroll_pension == ColSum(p.rows, "Pension_Deduction")
        gl_pension_payable == ColSum(WhereEq(g.rows, "GL_Account", "2110"), "Credit")
        pension_variance == Sub(payroll_pension, gl_pension_payable)
        employee ==
            IF OutOfTolerance(pension_variance)
            THEN <<VarianceRecord(<<"Pension Deduction Variance">>, payroll_pension,
                       gl_pension_payable, pension_variance, "High")>>
            ELSE <<>>
        err2 == FirstMissing(p, g,
                    << <<"payroll", "Employer_Pension_Contribution">>,
                       <<"GL", "GL_Account">>, <<"GL", "Debit">> >>)
        payroll_employer_pension == ColSum(p.rows, "Employer_Pension_Contribution")
        gl_employer_pension == ColSum(WhereEq(g.rows, "GL_Account", "6120"), "Debit")
        employer_variance == Sub(payroll_employer_pension, gl_employer_pension)
        employer ==
            IF OutOfTolerance(employer_variance)
            THEN <<VarianceRecord(<<"Employer Pension Contribution Variance">>,
                       payroll_employer_pension, gl_employer_pension,
                       employer_variance, "High"),
                   FlagRecord("Pension",
                       <<"Employer pension contribution not fully accrued in GL">>,
                       UnderstatedBy(employer_variance),
                       "Post accrual adjustment before month-end close")>>
            ELSE <<>>
    IN  IF err1 # NoError THEN Result(<<>>, err1)
        ELSE IF err2 # NoError THEN Result(employee, err2)
        ELSE Result(employee \o employer, NoError)

\* The benefits check with the flag dropped.
_check_benefit_accruals_noflag(p, g) ==
    LET err == FirstMissing(p, g,
                   << <<"payroll", "Employer_Benefits">>,
                      <<"GL", "GL_Account">>, <<"GL", "Debit">> >>)
        a == ColSum(p.rows, "Employer_Benefits")
        b == ColSum(WhereEq(g.rows, "GL_Account", "6130"), "Debit")
    IN  IF err # NoError THEN Result(<<>>, err)
        ELSE IF OutOfTolerance(Sub(a, b))
        THEN Result(<<VarianceRecord(<<"Employer Benefits Variance">>, a, b,
                          Sub(a, b), "High")>>, NoError)
        ELSE Result(<<>>, NoError)
_check_benefit_accruals(p, g) ==
    LET err == FirstMissing(p, g,
                   << <<"payroll", "Employer_Benefits">>,
                      <<"GL", "GL_Account">>, <<"GL", "Debit">> >>)
        payroll_employer_benefits == ColSum(p.rows, "Employer_Benefits")
        gl_benefits_expense == ColSum(WhereEq(g.rows, "GL_Account", "6130"), "Debit")
        benefits_variance == Sub(payroll_employer_benefits, gl_benefits_expense)
    IN  IF err # NoError THEN Result(<<>>, err)
        ELSE IF OutOfTolerance(benefits_variance)
        THEN Result(
               <<FlagRecord("Benefits Accrual",
                     <<"Missing or incomplete employer benefit accruals">>,
                     UnderstatedBy(benefits_variance),
                     "Review and post missing benefit accrual entries"),
                 VarianceRecord(<<"Employer Benefits Variance">>,
                     payroll_employer_benefits, gl_benefits_expense,
                     benefits_variance, "High")>>,
               NoError)
        ELSE Result(<<>>, NoError)

\* df['Bonus'] > 1000
HighBonusGE(r) == ~Less(r["Bonus"], BonusThreshold)
HighBonus(r) == Greater(r["Bonus"], BonusThreshold)

\* df['Overtime'] > 400
HighOvertime(r) == Greater(r["Overtime"], OvertimeThreshold)

_check_retro_adjustments(p, g) ==
    LET err == FirstMissing(p, g,
                   << <<"payroll", "Bonus">>, <<"payroll", "Overtime">> >>)
        high_bonus ==
            SelectSeq(p.rows, HighBonus)
        high_overtime ==
            SelectSeq(p.rows, HighOvertime)
    IN  IF err # NoError THEN Result(<<>>, err)
        ELSE Result(
              (IF Len(high_bonus) > 0
               THEN <<FlagRecord("Retro Adjustment",
                          <<Len(high_bonus), " employees with high bonuses (>$1,000)">>,
                          <<"Potential retroactive pay adjustments">>,
                          "Verify if bonuses relate to prior periods and adjust accruals")>>
               ELSE <<>>)
              \o
              (IF Len(high_overtime) > 0
               THEN <<FlagRecord("Retro Adjustment",
                          <<Len(high_overtime), " employees with high overtime (>$400)">>,
                          <<"May indicate prior period corrections">>,
                          "Review for proper period allocation")>>
               ELSE <<>>),
              NoError)

\* One iteration of the cost-center loop.
CostCenterStep(p, g, cost_center) ==
    LET cc_payroll == WhereEq(p.rows, "Cost_Center", cost_center)
        cc_gl == WhereEq(g.rows, "Cost_Center", cost_center)
        payroll_gross == ColSum(cc_payroll, "Gross_Pay")
        gl_expense == ColSum(WhereEq(cc_gl, "GL_Account", "6100"), "Debit")
        variance == Sub(payroll_gross, gl_expense)
    IN  IF OutOfTolerance(variance)
        THEN <<VarianceRecord(<<"Cost Center ", cost_center, " Variance">>,
                   payroll_gross, gl_expense, variance, "Medium")>>
        ELSE <<>>

RECURSIVE CostCenterLoop(_, _, _)
CostCenterLoop(p, g, ccs) ==
    IF ccs = <<>> THEN <<>>
    ELSE CostCenterStep(p, g, Head(ccs)) \o CostCenterLoop(p, g, Tail(ccs))

\* The balancing with the loop run over the GL table's cost centers.
_validate_cost_center_balancing_gl(p, g) ==
    LET err == FirstMissing(p, g,
                   << <<"GL", "Cost_Center">>, <<"payroll", "Cost_Center">>,
                      <<"payroll", "Gross_Pay">>,
                      <<"GL", "GL_Account">>, <<"GL", "Debit">> >>)
    IN  IF err # NoError THEN Result(<<>>, err)
        ELSE Result(CostCenterLoop(p, g, Unique(g.rows, "Cost_Center")), NoError)
_validate_cost_center_balancing(p, g) ==
    LET err0 == FirstMissing(p, g, << <<"payroll", "Cost_Center">> >>)
        ccs == Unique(p.rows, "Cost_Center")
        \* The loop body's accesses are made only if there is an iteration.
        err1 == FirstMissing(p, g,
                    << <<"payroll", "Cost_Center">>, <<"GL", "Cost_Center">>,
                       <<"payroll", "Gross_Pay">>,
                       <<"GL", "GL_Account">>, <<"GL", "Debit">> >>)
    IN  IF err0 # NoError THEN Result(<<>>, err0)
        ELSE IF ccs # <<>> /\ err1 # NoError THEN Result(<<>>, err1)
        ELSE Result(CostCenterLoop(p, g, ccs), NoError)

(* ------------------------------- report ------------------------------- *)

\* sum([abs(v['Variance']) for v in self.variances])
RECURSIVE SumAbsVariance(_)
SumAbsVariance(vs) ==
    IF vs = <<>> THEN Zero
    ELSE Add(Abs(Head(vs).Variance), SumAbsVariance(Tail(vs)))

\* The same sum with abs() left out.
RECURSIVE SumVariance(_)
SumVariance(vs) ==
    IF vs = <<>> THEN Zero
    ELSE Add(Head(vs).Variance, SumVariance(Tail(vs)))

\* The report with the total taken over the signed variances.
_generate_report_signed(vs, fs) ==
    [summary |->
        [Total_Variances       |-> Len(vs),
         High_Severity_Count   |-> Len(SelectSeq(vs, LAMBDA v : v.Severity = "High")),
         Total_Variance_Amount |-> Round2(SumVariance(vs)),
         Total_Flags           |-> Len(fs),
         Reconciliation_Status |-> IF Len(vs) > 0 THEN "FAILED" ELSE "PASSED"],
     variances |-> vs,
     flags |-> fs]
\* The report with the status taken from variances and flags alike.
_generate_report_flags(vs, fs) ==
    [summary |->
        [Total_Variances       |-> Len(vs),
         High_Severity_Count   |-> Len(SelectSeq(vs, LAMBDA v : v.Severity = "High")),
         Total_Variance_Amount |-> Round2(SumAbsVariance(vs)),
         Total_Flags           |-> Len(fs),
         Reconciliation_Status |->
             IF Len(vs) + Len(fs) > 0 THEN "FAILED" ELSE "PASSED"],
     variances |-> vs,
     flags |-> fs]
_generate_report(vs, fs) ==
    LET total_variances == Len(vs)
        high_severity == Len(SelectSeq(vs, LAMBDA v : v.Severity = "High"))
        total_variance_amount == SumAbsVariance(vs)
    IN  [summary |->
            [Total_Variances       |-> total_variances,
             High_Severity_Count   |-> high_severity,
             Total_Variance_Amount |-> Round2(total_variance_amount),
             Total_Flags           |-> Len(fs),
             Reconciliation_Status |->
                 IF total_variances > 0 THEN "FAILED" ELSE "PASSED"],
         variances |-> vs,
         flags |-> fs]

(* ------------------------------- inputs ------------------------------- *)

PayrollColumns ==
    {"Cost_Center", "Base_Salary", "Overtime", "Bonus", "Gross_Pay",
     "Pension_Deduction", "Health_Insurance", "Tax_Deduction", "Total_Deductions",
     "Net_Pay", "Employer_Pension_Contribution", "Employer_Benefits"}

GLColumns == {"GL_Account", "Cost_Center", "Debit", "Credit"}

\* (x * n / 100) of a whole-cent amount x >= 0, exactly.
Pct(x, n) == Amt((x.c * n) \div 100, ((x.c * n) % 100) * (SubPerCent \div 100))

\* A payroll row with its calculated fields.
PayrollRow(cc, base, overtime, bonus, health) ==
    LET gross == Add(Add(base, overtime), bonus)
        pension == Round2(Pct(gross, 5))
        tax == Round2(Pct(gross, 15))
        deductions == Add(Add(pension, health), tax)
    IN  [Cost_Center |-> cc, Base_Salary |-> base, Overtime |-> overtime,
         Bonus |-> bonus, Gross_Pay |-> gross, Pension_Deduction |-> pension,
         Health_Insurance |-> health, Tax_Deduction |-> tax,
         Total_Deductions |-> deductions, Net_Pay |-> Sub(gross, deductions),
         Employer_Pension_Contribution |-> Round2(Pct(gross, 6)),
         Employer_Benefits |-> Pct(health, 80)]

\* The employees a payroll table is drawn from: bonus and overtime below, on
\* and above the retro thresholds, two cost centers.
PayrollRows ==
    {PayrollRow("CC1", Usd(5000, 0), Usd(0, 0), Usd(0, 0), Usd(1000, 0)),
     PayrollRow("CC2", Usd(8500, 0), Usd(0, 0), Usd(1500, 0), Usd(250, 0)),
     PayrollRow("CC1", Usd(3000, 0), Usd(400, 0), Usd(1000, 0), Usd(300, 0)),
     PayrollRow("CC2", Usd(4000, 0), Usd(400, 1), Usd(0, 0), Usd(200, 0))}

Posting(account, cc, debit, credit) ==
    [GL_Account |-> account, Cost_Center |-> cc, Debit |-> debit, Credit |-> credit]

\* Cost centers in sorted order, as groupby() yields them.
CostCenters == <<"CC1", "CC2">>

\* The six postings of one cost center.
CostCenterPostings(rows, cc) ==
    LET mine == WhereEq(rows, "Cost_Center", cc)
    IN  <<Posting("6100", cc, Round2(ColSum(mine, "Gross_Pay")), Zero),
          Posting("2110", cc, Zero, Round2(ColSum(mine, "Pension_Deduction"))),
          Posting("6120", cc, Round2(ColSum(mine, "Employer_Pension_Contribution")), Zero),
          Posting("2120", cc, Zero, Round2(ColSum(mine, "Health_Insurance"))),
          Posting("2130", cc, Zero, Round2(ColSum(mine, "Tax_Deduction"))),
          Posting("1010", cc, Zero, Round2(ColSum(mine, "Net_Pay")))>>

BenefitPosting(rows, cc) ==
    Posting("6130", cc, Round2(ColSum(WhereEq(rows, "Cost_Center", cc),
                                      "Employer_Benefits")), Zero)

\* The GL postings of a payroll table, every amount as in the payroll; the
\* employer-benefit accruals are left out when omit_benefits.
generate_gl_postings(rows, omit_benefits) ==
    LET present == SelectSeq(CostCenters,
                       LAMBDA cc : \E i \in DOMAIN rows : rows[i].Cost_Center = cc)
        F[k \in 0..Len(present)] ==
            IF k = 0 THEN <<>> ELSE F[k - 1] \o CostCenterPostings(rows, present[k])
        B[k \in 0..Len(present)] ==
            IF k = 0 THEN <<>> ELSE Append(B[k - 1], BenefitPosting(rows, present[k]))
    IN  F[Len(present)] \o (IF omit_benefits THEN <<>> ELSE B[Len(present)])

\* Further ledger entries a GL table may hold: on, just above and far above
\* the tolerance for each compared account, a reversal on CC2 and a posting
\* on a cost center no payroll row has.
AdjustingEntries ==
    <<Posting("6100", "CC2", Neg(Usd(1000, 0)), Zero),
      Posting("6100", "CC3", Usd(1000, 0), Zero),
      Posting("6100", "CC1", Usd(0, 1), Zero),
      Posting("6100", "CC1", Amt(1, 1), Zero),
      Posting("6100", "CC1", Usd(100, 0), Zero),
      Posting("1010", "CC1", Zero, Usd(0, 1)),
      Posting("1010", "CC1", Zero, Amt(1, 1)),
      Posting("2110", "CC1", Zero, Usd(0, 1)),
      Posting("2110", "CC1", Zero, Amt(1, 1)),
      Posting("2130", "CC1", Zero, Usd(0, 1)),
      Posting("2130", "CC1", Zero, Neg(Amt(1, 1))),
      Posting("6120", "CC1", Usd(0, 1), Zero),
      Posting("6120", "CC1", Neg(Usd(30, 0)), Zero),
      Posting("6130", "CC1", Usd(0, 1), Zero),
      Posting("6130", "CC1", Amt(1, 1), Zero)>>

\* The entries of AdjustingEntries at the indexes in I, in order.
Chosen(I) ==
    LET F[k \in 0..Len(AdjustingEntries)] ==
            IF k = 0 THEN <<>>
            ELSE IF k \in I THEN Append(F[k - 1], AdjustingEntries[k])
            ELSE F[k - 1]
    IN  F[Len(AdjustingEntries)]

\* The columns a check reads, by table.
UsedColumns ==
    {<<"payroll", c>> : c \in {"Cost_Center", "Overtime", "Bonus", "Gross_Pay",
                               "Pension_Deduction", "Total_Deductions", "Net_Pay",
                               "Employer_Pension_Contribution", "Employer_Benefits"}}
    \cup {<<"GL", c>> : c \in GLColumns}

\* A table of the given rows without the columns in `without`.
Table(columns, rows, without) ==
    [columns |-> columns \ without,
     rows |-> [i \in DOMAIN rows |-> [c \in columns \ without |-> rows[i][c]]]]

Dropped(missing, table) == {m[2] : m \in {x \in missing : x[1] = table}}

(* ---------------------------- state machine --------------------------- *)

\* __init__: the two tables as given, no validation; empty accumulators.
\* The tables are any payroll of at most MaxRows rows with the ledger
\* generated for it, at most two further ledger entries, and at most one
\* column a check reads absent.
Init ==
    /\ \E rows \in UNION {[1..k -> PayrollRows] : k \in 0..MaxRows},
          I \in {{i, j} : i, j \in DOMAIN AdjustingEntries} \cup {{}},
          omit_benefits \in BOOLEAN,
          missing \in {{}} \cup {{m} : m \in UsedColumns} :
          /\ missing # {} => (I = {} /\ ~omit_benefits)
          /\ payroll_df = Table(PayrollColumns, rows, Dropped(missing, "payroll"))
          /\ gl_df = Table(GLColumns,
                           generate_gl_postings(rows, omit_benefits) \o Chosen(I),
                           Dropped(missing, "GL"))
    /\ variances = <<>>
    /\ flags = <<>>
    /\ pc = "idle"
    /\ calls = 0
    /\ outcomes = <<>>
    /\ log = <<>>

Emitted(r, list) ==
    LET of == SelectSeq(r.emits, LAMBDA e : e.list = list)
    IN  [i \in DOMAIN of |-> of[i].rec]

\* One check of reconcile(): its appends, then the next check, or the error
\* propagating out of reconcile().
RunCheck(at, r, next) ==
    /\ pc = at
    /\ variances' = variances \o Emitted(r, "variances")
    /\ flags' = flags \o Emitted(r, "flags")
    /\ log' = log \o [i \in DOMAIN r.emits |->
                         [call |-> calls, check |-> at, list |-> r.emits[i].list,
                          rec |-> r.emits[i].rec]]
    /\ IF r.err = NoError
       THEN pc' = next /\ outcomes' = outcomes
       ELSE pc' = "idle" /\ outcomes' = Append(outcomes, [raised |-> r.err, returned |-> <<>>])
    /\ UNCHANGED <<payroll_df, gl_df, calls>>

\* A caller invokes reconcile() on the instance.
Reconcile ==
    /\ pc = "idle"
    /\ calls < MaxCalls
    /\ pc' = "totals"
    /\ calls' = calls + 1
    /\ UNCHANGED <<payroll_df, gl_df, variances, flags, outcomes, log>>

CheckTotals == RunCheck("totals", _check_totals(payroll_df, gl_df), "pension")

CheckPensionDeductions ==
    RunCheck("pension", _check_pension_deductions(payroll_df, gl_df), "benefits")

CheckBenefitAccruals ==
    RunCheck("benefits", _check_benefit_accruals(payroll_df, gl_df), "retro")

CheckRetroAdjustments ==
    RunCheck("retro", _check_retro_adjustments(payroll_df, gl_df), "cost_center")

ValidateCostCenterBalancing ==
    RunCheck("cost_center", _validate_cost_center_balancing(payroll_df, gl_df), "report")

\* return self._generate_report()
GenerateReport ==
    /\ pc = "report"
    /\ outcomes' = Append(outcomes, [raised |-> NoError,
                                     returned |-> <<_generate_report(variances, flags)>>])
    /\ pc' = "idle"
    /\ UNCHANGED <<payroll_df, gl_df, variances, flags, calls, log>>

Next ==
    \/ Reconcile
    \/ CheckTotals
    \/ CheckPensionDeductions
    \/ CheckBenefitAccruals
    \/ CheckRetroAdjustments
    \/ ValidateCostCenterBalancing
    \/ GenerateReport

Spec == Init /\ [][Next]_vars

(* ------------------------- what the claims read ------------------------ *)

AllColumnsPresent ==
    payroll_df.columns = PayrollColumns /\ gl_df.columns = GLColumns

\* The reports returned so far, in call order.
Reports ==
    LET ok == SelectSeq(outcomes, LAMBDA o : o.returned # <<>>)
    IN  [i \in DOMAIN ok |-> ok[i].returned[1]]

PayrollTotal(col) == ColSum(payroll_df.rows, col)

GLTotal(accounts, side) == ColSum(WhereIn(gl_df.rows, "GL_Account", accounts), side)

PayrollGrossOf(cc) == ColSum(WhereEq(payroll_df.rows, "Cost_Center", cc), "Gross_Pay")

GLSalaryOf(cc) ==
    ColSum(WhereEq(WhereEq(gl_df.rows, "Cost_Center", cc), "GL_Account", "6100"), "Debit")

\* abs(payroll - GL), and whether it is strictly more than one cent.
Gap(a, b) == Abs(Sub(a, b))

Exceeds(a, b) == Greater(Gap(a, b), Usd(0, 1))

GrossGap == Gap(PayrollTotal("Gross_Pay"), GLTotal({"6100"}, "Debit"))

NetGap == Gap(PayrollTotal("Net_Pay"), GLTotal({"1010"}, "Credit"))

DeductionsGap ==
    Gap(PayrollTotal("Total_Deductions"), GLTotal({"2110", "2120", "2130"}, "Credit"))

PensionGap == Gap(PayrollTotal("Pension_Deduction"), GLTotal({"2110"}, "Credit"))

EmployerPensionGap ==
    Gap(PayrollTotal("Employer_Pension_Contribution"), GLTotal({"6120"}, "Debit"))

BenefitsGap == Gap(PayrollTotal("Employer_Benefits"), GLTotal({"6130"}, "Debit"))

PayrollCostCenters == {payroll_df.rows[i]["Cost_Center"] : i \in DOMAIN payroll_df.rows}

\* The records the step being taken appends.
NewVariances == SubSeq(variances', Len(variances) + 1, Len(variances'))

NewFlags == SubSeq(flags', Len(flags) + 1, Len(flags'))

NewLog == SubSeq(log', Len(log) + 1, Len(log'))

CountType(vs, type) == Cardinality({i \in DOMAIN vs : vs[i].Type = type})

One(b) == IF b THEN 1 ELSE 0

CostCenterType(cc) == <<"Cost Center ", cc, " Variance">>

(* -------------------------------- claims ------------------------------- *)

\* C1: two reconcile() calls in a row on the same engine, tables untouched,
\* return identical reports.
C1_Idempotent ==
    \A i \in DOMAIN Reports : \A j \in DOMAIN Reports : Reports[i] = Reports[j]

\* C2: a report's status is FAILED exactly when its variance list is
\* non-empty and PASSED otherwise, whatever its flags.
C2_StatusIffVariances ==
    \A i \in DOMAIN Reports :
        LET r == Reports[i]
        IN  /\ r.summary.Reconciliation_Status \in {"FAILED", "PASSED"}
            /\ r.summary.Reconciliation_Status = "FAILED" <=> Len(r.variances) > 0

C2_Witness ==
    \E i \in DOMAIN Reports :
        /\ Len(Reports[i].flags) > 0
        /\ Len(Reports[i].variances) = 0
        /\ Reports[i].summary.Reconciliation_Status = "PASSED"

\* The absolute values of the Variance fields, added up in whole cents.
RECURSIVE AbsCents(_)
AbsCents(vs) ==
    IF vs = <<>> THEN 0
    ELSE (IF Head(vs).Variance.c < 0 THEN -Head(vs).Variance.c ELSE Head(vs).Variance.c)
         + AbsCents(Tail(vs))

\* C3: a report's Total_Variance_Amount is the sum of the absolute values of
\* its variance records' Variance fields, a two-decimal amount.
C3_TotalIsSumOfAbs ==
    \A i \in DOMAIN Reports :
        LET r == Reports[i]
        IN  /\ \A k \in DOMAIN r.variances : r.variances[k].Variance.s = 0
            /\ r.summary.Total_Variance_Amount = Amt(AbsCents(r.variances), 0)

C3_Witness ==
    \E i \in DOMAIN Reports :
        /\ \E k \in DOMAIN Reports[i].variances : Reports[i].variances[k].Variance.c < 0
        /\ \E k \in DOMAIN Reports[i].variances : Reports[i].variances[k].Variance.c > 0
        /\ Reports[i].summary.Total_Variance_Amount.c > 0

C5_TotalsSeverity ==
    \A i \in DOMAIN variances :
        LET v == variances[i]
        IN  /\ v.Type = <<"Gross Pay Variance">> =>
                 v.Severity = IF Greater(GrossGap, Usd(100, 0)) THEN "High" ELSE "Medium"
            /\ v.Type = <<"Net Pay Variance">> => v.Severity = "High"
            /\ v.Type = <<"Total Deductions Variance">> => v.Severity = "Medium"

\* A gross difference of exactly 100.00 reported as Medium.
C5_Witness ==
    /\ AllColumnsPresent
    /\ GrossGap = Usd(100, 0)
    /\ \E i \in DOMAIN variances :
          /\ variances[i].Type = <<"Gross Pay Variance">>
          /\ variances[i].Severity = "Medium"

\* Scenario C: two payroll cost centers, CC1 balanced, CC2 payroll gross
\* 10000.00 against a GL 6100 debit for CC2 of 9000.00, every other compared
\* pair equal.
ScenarioC ==
    /\ AllColumnsPresent
    /\ PayrollCostCenters = {"CC1", "CC2"}
    /\ PayrollGrossOf("CC1") = GLSalaryOf("CC1")
    /\ PayrollGrossOf("CC2") = Usd(10000, 0)
    /\ GLSalaryOf("CC2") = Usd(9000, 0)
    /\ GrossGap = Zero
    /\ NetGap = Zero
    /\ DeductionsGap = Zero
    /\ PensionGap = Zero
    /\ EmployerPensionGap = Zero
    /\ BenefitsGap = Zero

ScenarioCReport(r) ==
    /\ Len(r.variances) = 1
    /\ \E k \in DOMAIN r.variances[1].Type : r.variances[1].Type[k] = "CC2"
    /\ r.variances[1].Severity = "Medium"
    /\ r.variances[1].Variance = Usd(1000, 0)

\* C6: in Scenario C the report of reconcile() holds exactly one variance
\* record, its type containing CC2, severity Medium, Variance 1000.00.
C6_ScenarioC ==
    ScenarioC => \A i \in DOMAIN Reports : ScenarioCReport(Reports[i])

\* The same of the first report of an engine alone.
C6_FirstReport ==
    (ScenarioC /\ Len(Reports) >= 1) => ScenarioCReport(Reports[1])

C6_FirstReportReached == ~(ScenarioC /\ Len(Reports) >= 1)

\* C7: the 'Benefits Accrual' flag and the 'Employer Benefits Variance'
\* record (High) are emitted together or not at all, flag first, exactly
\* when the Employer_Benefits sum and the 6130 debit sum differ by more than
\* 0.01; 800.00 against 0.00 gives one flag and one variance of 800.00.
C7_BenefitsFlagAndVariance ==
    [][/\ Cardinality({i \in DOMAIN NewFlags :
                          NewFlags[i].Category = "Benefits Accrual"})
            = CountType(NewVariances, <<"Employer Benefits Variance">>)
       /\ (AllColumnsPresent /\ pc = "benefits") =>
            IF Greater(BenefitsGap, Usd(0, 1))
            THEN /\ Len(NewLog) = 2
                 /\ NewLog[1].list = "flags"
                 /\ NewLog[1].rec.Category = "Benefits Accrual"
                 /\ NewLog[2].list = "variances"
                 /\ NewLog[2].rec.Type = <<"Employer Benefits Variance">>
                 /\ NewLog[2].rec.Severity = "High"
                 /\ NewFlags = <<NewLog[1].rec>>
                 /\ NewVariances = <<NewLog[2].rec>>
                 /\ (/\ PayrollTotal("Employer_Benefits") = Usd(800, 0)
                     /\ GLTotal({"6130"}, "Debit") = Zero)
                      => NewVariances[1].Variance = Usd(800, 0)
            ELSE NewLog = <<>> /\ NewFlags = <<>> /\ NewVariances = <<>>
      ]_vars

\* Benefits of 800.00 against no 6130 posting, all else matching, after the
\* benefits check of the first call: one flag, one variance of 800.00.
C7_Witness ==
    /\ AllColumnsPresent
    /\ pc = "retro"
    /\ calls = 1
    /\ PayrollTotal("Employer_Benefits") = Usd(800, 0)
    /\ GLTotal({"6130"}, "Debit") = Zero
    /\ Len(flags) = 1
    /\ flags[1].Category = "Benefits Accrual"
    /\ Len(variances) = 1
    /\ variances[1].Type = <<"Employer Benefits Variance">>
    /\ variances[1].Variance = Usd(800, 0)

\* Payroll rows with Bonus over 1000, and with Overtime over 400.
BonusOver ==
    Cardinality({i \in DOMAIN payroll_df.rows :
                    Greater(payroll_df.rows[i]["Bonus"], Usd(1000, 0))})

OvertimeOver ==
    Cardinality({i \in DOMAIN payroll_df.rows :
                    Greater(payroll_df.rows[i]["Overtime"], Usd(400, 0))})

\* C8: the retro check appends one 'Retro Adjustment' flag for bonuses
\* exactly when some row has Bonus > 1000 and one for overtime exactly when
\* some row has Overtime > 400, each giving the count of such rows; at most
\* two flags and never a variance record.
C8_RetroFlags ==
    [][(AllColumnsPresent /\ pc = "retro") =>
        /\ NewVariances = <<>>
        /\ Len(NewFlags) = One(BonusOver > 0) + One(OvertimeOver > 0)
        /\ Len(NewFlags) <= 2
        /\ \A i \in DOMAIN NewFlags : NewFlags[i].Category = "Retro Adjustment"
        /\ BonusOver > 0 =>
             NewFlags[1].Issue = <<BonusOver, " employees with high bonuses (>$1,000)">>
        /\ OvertimeOver > 0 =>
             NewFlags[Len(NewFlags)].Issue
               = <<OvertimeOver, " employees with high overtime (>$400)">>
      ]_vars

\* One employee with Bonus 1500, none with high overtime: the retro check of
\* this call appended exactly one flag, the bonus one.
C8_Witness ==
    /\ AllColumnsPresent
    /\ pc = "cost_center"
    /\ Cardinality({i \in DOMAIN payroll_df.rows :
                       payroll_df.rows[i]["Bonus"] = Usd(1500, 0)}) = 1
    /\ BonusOver = 1
    /\ OvertimeOver = 0
    /\ LET mine == SelectSeq(log, LAMBDA e : e.call = calls /\ e.check = "retro")
       IN  /\ Len(mine) = 1
           /\ mine[1].list = "flags"
           /\ mine[1].rec.Issue = <<1, " employees with high bonuses (>$1,000)">>

\* The columns a check reads that the tables lack.
MissingColumns ==
    {m \in UsedColumns :
        m[2] \notin (IF m[1] = "payroll" THEN payroll_df.columns ELSE gl_df.columns)}

\* C9: with a column a check reads absent from its table, every reconcile()
\* call fails with an error and returns no report.
C9_SchemaErrorAborts ==
    MissingColumns # {} =>
        \A i \in DOMAIN outcomes :
            outcomes[i].raised # NoError /\ outcomes[i].returned = <<>>

\* The part of C9 that the code keeps: a call that raised returned nothing,
\* and a call made with a column absent returned a report only if the
\* payroll table has no rows and the column is the GL table's Cost_Center.
C9_OnlyEmptyPayrollEscapes ==
    \A i \in DOMAIN outcomes :
        /\ outcomes[i].raised # NoError => outcomes[i].returned = <<>>
        /\ (MissingColumns # {} /\ outcomes[i].returned # <<>>) =>
             (payroll_df.rows = <<>> /\ MissingColumns = {<<"GL", "Cost_Center">>})

\* C10: the error of a call that met a missing column names the table and
\* the column.
C10_ErrorNamesTableAndColumn ==
    \A i \in DOMAIN outcomes :
        outcomes[i].raised # NoError =>
            \E m \in MissingColumns :
                /\ \E k \in DOMAIN outcomes[i].raised.args :
                      outcomes[i].raised.args[k] = m[2]
                /\ \E k \in DOMAIN outcomes[i].raised.args :
                      outcomes[i].raised.args[k] = m[1]

\* What the error does name: the column, and nothing else.
C10_ErrorNamesColumn ==
    \A i \in DOMAIN outcomes :
        outcomes[i].raised # NoError =>
            \E m \in MissingColumns : outcomes[i].raised = KeyError(m[2])

\* The place of a variance record in the order the checks run: the totals
\* (gross, net, deductions), the pension check (employee, employer), the
\* benefits check, then the cost centers as the payroll first shows them.
VarianceRank(v) ==
    LET ccs == Unique(payroll_df.rows, "Cost_Center")
    IN  IF v.Type = <<"Gross Pay Variance">> THEN 1
        ELSE IF v.Type = <<"Net Pay Variance">> THEN 2
        ELSE IF v.Type = <<"Total Deductions Variance">> THEN 3
        ELSE IF v.Type = <<"Pension Deduction Variance">> THEN 4
        ELSE IF v.Type = <<"Employer Pension Contribution Variance">> THEN 5
        ELSE IF v.Type = <<"Employer Benefits Variance">> THEN 6
        ELSE 6 + (CHOOSE k \in DOMAIN ccs : v.Type = CostCenterType(ccs[k]))

\* The place of a flag record: Pension, Benefits Accrual, Retro Adjustment
\* for bonuses, Retro Adjustment for overtime.
FlagRank(f) ==
    IF f.Category = "Pension" THEN 1
    ELSE IF f.Category = "Benefits Accrual" THEN 2
    ELSE IF f.Issue[2] = " employees with high bonuses (>$1,000)" THEN 3
    ELSE 4

InCheckOrder(r) ==
    /\ \A i \in DOMAIN r.variances : \A j \in DOMAIN r.variances :
          i < j => VarianceRank(r.variances[i]) <= VarianceRank(r.variances[j])
    /\ \A i \in DOMAIN r.flags : \A j \in DOMAIN r.flags :
          i < j => FlagRank(r.flags[i]) <= FlagRank(r.flags[j])

\* C11: in every report the variance records stand in check execution order
\* (gross, net, deductions, employee pension, employer pension, benefits,
\* cost centers in payroll first-appearance order) and the flag records in
\* theirs (Pension, Benefits Accrual, Retro bonus, Retro overtime): no record
\* of a later check precedes a record of an earlier check.
C11_ReportInCheckOrder ==
    \A i \in DOMAIN Reports : InCheckOrder(Reports[i])

\* The same of the first report of an engine alone, where each record stands
\* strictly after the records of the checks before it.
C11_FirstReport ==
    Len(Reports) >= 1 =>
        /\ InCheckOrder(Reports[1])
        /\ \A i \in DOMAIN Reports[1].variances : \A j \in DOMAIN Reports[1].variances :
              i < j => VarianceRank(Reports[1].variances[i])
                         < VarianceRank(Reports[1].variances[j])
        /\ \A i \in DOMAIN Reports[1].flags : \A j \in DOMAIN Reports[1].flags :
              i < j => FlagRank(Reports[1].flags[i]) < FlagRank(Reports[1].flags[j])

\* The cost centers of the GL table's rows.
GLCostCenters == {gl_df.rows[i]["Cost_Center"] : i \in DOMAIN gl_df.rows}

CountCategory(fs, category) ==
    Cardinality({i \in DOMAIN fs : fs[i].Category = category})

\* C13: a 'Pension' flag is appended exactly when the employer comparison
\* (Employer_Pension_Contribution against 6120 debits) is out of tolerance,
\* together with an 'Employer Pension Contribution Variance' of severity
\* High; the employee comparison (Pension_Deduction against 2110 credits)
\* appends only a 'Pension Deduction Variance' of severity High when out of
\* tolerance, never a flag.
C13_PensionFlagAsymmetry ==
    [][/\ CountCategory(NewFlags, "Pension")
            = CountType(NewVariances, <<"Employer Pension Contribution Variance">>)
       /\ (AllColumnsPresent /\ pc = "pension") =>
            /\ CountCategory(NewFlags, "Pension")
                 = One(Greater(EmployerPensionGap, Usd(0, 1)))
            /\ Len(NewFlags) = One(Greater(EmployerPensionGap, Usd(0, 1)))
            /\ CountType(NewVariances, <<"Pension Deduction Variance">>)
                 = One(Greater(PensionGap, Usd(0, 1)))
            /\ Len(NewVariances) = One(Greater(PensionGap, Usd(0, 1)))
                 + One(Greater(EmployerPensionGap, Usd(0, 1)))
            /\ \A i \in DOMAIN NewVariances : NewVariances[i].Severity = "High"
      ]_vars

\* After the pension check of the first call: the employee comparison alone
\* is out of tolerance, and there is its High variance and no flag.
C13_Witness ==
    /\ AllColumnsPresent
    /\ pc = "benefits"
    /\ calls = 1
    /\ Greater(PensionGap, Usd(0, 1))
    /\ ~Greater(EmployerPensionGap, Usd(0, 1))
    /\ \E i \in DOMAIN variances :
          /\ variances[i].Type = <<"Pension Deduction Variance">>
          /\ variances[i].Severity = "High"
    /\ flags = <<>>

\* The other side: the employer comparison alone out of tolerance left the
\* flag and the High variance.
C13_EmployerSideReached ==
    ~(/\ AllColumnsPresent
      /\ pc = "benefits"
      /\ calls = 1
      /\ ~Greater(PensionGap, Usd(0, 1))
      /\ Greater(EmployerPensionGap, Usd(0, 1))
      /\ CountCategory(flags, "Pension") = 1
      /\ CountType(variances, <<"Employer Pension Contribution Variance">>) = 1)

====
